---- MODULE Spec2Model ----
(***************************************************************************)
(* A model of the Quartr extraction scripts: the metadata fetcher          *)
(* (get_meta.py), the transcript extractor (meta_to_txt.py), the slide     *)
(* deck extractor (slides_to_txt.py) and the orchestrator (manager.py).    *)
(*                                                                         *)
(* Strings are sequences of characters.  Python values that may be None    *)
(* or of another type are records of one shape, so that any two of them    *)
(* can be compared.                                                        *)
(***************************************************************************)
EXTENDS Integers, Sequences, FiniteSets, TLC

VARIABLES
    \* the directories on disk: file name -> content
    transcript_raw, slides_text,
    \* choose_best applied to one list (manager.py)
    c_items, c_best, c_pc,
    \* extract_text_from_raw_transcript applied to one payload (meta_to_txt.py)
    t_raw, t_out, t_pc,
    \* runs of meta_obj_to_txt for one record: the record, what its fileUrl
    \* serves, and the log of the runs
    x_meta, x_remote, x_runs,
    \* one call of slide_deck_obj_to_txt: its inputs and its outcome
    s_call, s_pc,
    \* runs of build_meta_for_ticker (get_meta.py): the remote data set and how the
    \* server pages it, the directory transcript_meta/<ticker>, the position of the
    \* run, cursor and all_items of the loop, and of the current run the responses
    \* received, the cursors requested, the directory it started from and the files
    \* it wrote
    f_dataset, f_server, transcript_meta, f_pc, cursor, all_items, f_resps, f_reqs,
    f_before, f_wrote, f_runs,
    \* main() of manager.py: its position, the items it loaded, by_event (in
    \* insertion order) and the position of the loop in it, the locals of the
    \* iteration, the counters, the step that raised last, what the iteration wrote
    \* and whether an unlink of it failed, and the log of the completed iterations
    pc, index_items, by_event, event_at, transcript_meta_rec, deck_meta, txt_path,
    slides_txt_path, processed, skipped, o_raised, o_iter, o_log

fsVars == <<transcript_raw, slides_text>>
chooseVars == <<c_items, c_best, c_pc>>
textVars == <<t_raw, t_out, t_pc>>
extractVars == <<x_meta, x_remote, x_runs>>
slideVars == <<s_call, s_pc>>
fetchVars == <<f_dataset, f_server, transcript_meta, f_pc, cursor, all_items, f_resps,
               f_reqs, f_before, f_wrote, f_runs>>
mainVars == <<pc, index_items, by_event, event_at, transcript_meta_rec, deck_meta, txt_path,
              slides_txt_path, processed, skipped, o_raised, o_iter, o_log>>
vars == <<fsVars, chooseVars, textVars, extractVars, slideVars, fetchVars, mainVars>>

(***************************************************************************)
(* Sequences                                                               *)
(***************************************************************************)
RECURSIVE Reverse(_)
Reverse(s) == IF s = <<>> THEN <<>> ELSE Reverse(Tail(s)) \o <<Head(s)>>

RECURSIVE SeqsUpTo(_, _)
\* every sequence over S of length 0..n
SeqsUpTo(S, n) ==
    IF n = 0 THEN {<<>>}
    ELSE LET shorter == SeqsUpTo(S, n - 1)
         IN  shorter \cup {Append(s, x) : s \in {t \in shorter : Len(t) = n - 1}, x \in S}

Min(a, b) == IF a <= b THEN a ELSE b

(***************************************************************************)
(* Optional values                                                         *)
(***************************************************************************)
\* a str-or-None field: None is [some |-> FALSE]
NoneStr == [some |-> FALSE, s |-> <<>>]
SomeStr(s) == [some |-> TRUE, s |-> s]
\* an int-or-something-else field: isinstance(v, int) is v.int
NoInt == [int |-> FALSE, n |-> 0]
SomeInt(n) == [int |-> TRUE, n |-> n]

(***************************************************************************)
(* Strings: sequences of characters                                        *)
(***************************************************************************)
\* str.isspace
IsSpace(c) == c \in {" ", "\n", "\t", "\r"}
\* the class [<>:"/\\|?*\x00-\x1F] of sanitize_filename: the control characters
\* include "\n", "\t" and "\r"
IsIllegal(c) == c \in {"<", ">", ":", "\"", "/", "\\", "|", "?", "*", "\n", "\t", "\r"}

RECURSIVE LStrip(_)
LStrip(s) == IF s # <<>> /\ IsSpace(Head(s)) THEN LStrip(Tail(s)) ELSE s
RECURSIVE RStrip(_)
RStrip(s) == IF s # <<>> /\ IsSpace(s[Len(s)]) THEN RStrip(SubSeq(s, 1, Len(s) - 1)) ELSE s
\* str.strip()
Strip(s) == RStrip(LStrip(s))

\* re.sub(r'[<>:"/\\|?*\x00-\x1F]', "", name)
RemoveIllegal(s) == SelectSeq(s, LAMBDA c : ~IsIllegal(c))

\* re.sub(r"\s+", " ", name): of each run of white space its first character stays,
\* as a space
CollapseSpace(s) ==
    LET kept == SelectSeq([i \in 1..Len(s) |-> i],
                          LAMBDA i : ~IsSpace(s[i]) \/ i = 1 \/ ~IsSpace(s[i - 1]))
    IN  [j \in 1..Len(kept) |-> IF IsSpace(s[kept[j]]) THEN " " ELSE s[kept[j]]]

\* name[:max_len]
Truncate(s, max_len) == SubSeq(s, 1, Min(Len(s), max_len))

RECURSIVE Join(_, _)
\* sep.join(parts)
Join(parts, sep) ==
    IF parts = <<>> THEN <<>>
    ELSE IF Len(parts) = 1 THEN parts[1]
    ELSE parts[1] \o sep \o Join(Tail(parts), sep)

Digits == <<"0", "1", "2", "3", "4", "5", "6", "7", "8", "9">>
RECURSIVE IntStr(_)
\* str(n) of a natural number
IntStr(n) == IF n < 10 THEN <<Digits[n + 1]>> ELSE IntStr(n \div 10) \o <<Digits[(n % 10) + 1]>>
\* str(v) of an id field: an int prints its digits, None prints "None"
IdStr(v) == IF v.int THEN IntStr(v.n) ELSE <<"N", "o", "n", "e">>

\* sanitize_filename of meta_to_txt.py (max_len 140, "transcript") and of
\* slides_to_txt.py (max_len 160, "slides")
sanitize_filename(name, max_len, default) ==
    LET cut == RStrip(Truncate(CollapseSpace(RemoveIllegal(Strip(name))), max_len))
    IN  IF cut = <<>> THEN default ELSE cut

TranscriptMaxLen == 140
SlidesMaxLen == 160

(***************************************************************************)
(* JSON values: one record shape for str, dict, list, number and null      *)
(***************************************************************************)
JV(t, s, keys, items) == [t |-> t, s |-> s, keys |-> keys, items |-> items]
JStr(s) == JV("str", s, <<>>, <<>>)
JDict(keys, items) == JV("dict", <<>>, keys, items)
JList(items) == JV("list", <<>>, <<>>, items)
JNum == JV("num", <<>>, <<>>, <<>>)
JNull == JV("null", <<>>, <<>>, <<>>)

\* d.get(k): None when the key is absent
Get(d, k) ==
    IF \E i \in 1..Len(d.keys) : d.keys[i] = k
    THEN d.items[CHOOSE i \in 1..Len(d.keys) : d.keys[i] = k]
    ELSE JNull

\* isinstance(v, str) and v.strip()
NonBlankStr(v) == v.t = "str" /\ Strip(v.s) # <<>>

(***************************************************************************)
(* meta_to_txt.py                                                          *)
(***************************************************************************)
ScalarKeys == <<"text", "plainText", "content", "body">>
ArrayKeys == <<"segments", "entries", "paragraphs", "turns", "speakerTurns", "items">>
ItemKeys == <<"text", "content", "value">>

RECURSIVE FirstNonBlank(_, _)
\* the loop `for k in keys: v = d.get(k); if isinstance(v, str) and v.strip(): ...`:
\* <<the stripped value>> for the first key that holds one, <<>> for none
FirstNonBlank(d, keys) ==
    IF keys = <<>> THEN <<>>
    ELSE IF NonBlankStr(Get(d, Head(keys))) THEN <<Strip(Get(d, Head(keys)).s)>>
    ELSE FirstNonBlank(d, Tail(keys))

RECURSIVE JoinParts(_)
\* the parts _join_text_array collects from the elements of a list
JoinParts(arr) ==
    IF arr = <<>> THEN <<>>
    ELSE LET item == Head(arr)
             part == IF item.t = "dict" THEN FirstNonBlank(item, ItemKeys)
                     ELSE IF NonBlankStr(item) THEN <<Strip(item.s)>>
                     ELSE <<>>
         IN  part \o JoinParts(Tail(arr))

join_text_array(arr) ==
    IF arr.t # "list" THEN <<>> ELSE Strip(Join(JoinParts(arr.items), <<"\n">>))

max_chunks == 50000

RECURSIVE DeepRec(_, _)
RECURSIVE DeepRecAll(_, _)
\* rec(x) of _deep_collect_text_fields, as a function of the list out
DeepRec(x, out) ==
    IF Len(out) >= max_chunks THEN out
    ELSE IF x.t = "dict"
         THEN DeepRecAll(x.items,
                         IF NonBlankStr(Get(x, "text"))
                         THEN Append(out, Strip(Get(x, "text").s)) ELSE out)
    ELSE IF x.t = "list" THEN DeepRecAll(x.items, out)
    ELSE out
DeepRecAll(xs, out) ==
    IF xs = <<>> THEN out ELSE DeepRecAll(Tail(xs), DeepRec(Head(xs), out))

RECURSIVE DropAdjacentRepeats(_)
\* the loop with prev: an element equal to the one before it is dropped
DropAdjacentRepeats(out) ==
    IF Len(out) <= 1 THEN out
    ELSE LET front == DropAdjacentRepeats(SubSeq(out, 1, Len(out) - 1))
         IN  IF out[Len(out)] # out[Len(out) - 1] THEN Append(front, out[Len(out)]) ELSE front

deep_collect_text_fields(obj) == DropAdjacentRepeats(DeepRec(obj, <<>>))

RECURSIVE FirstJoined(_, _)
\* the loop `for key in (...): joined = _join_text_array(d.get(key)); if joined: return`
FirstJoined(d, keys) ==
    IF keys = <<>> THEN <<>>
    ELSE IF join_text_array(Get(d, Head(keys))) # <<>> THEN join_text_array(Get(d, Head(keys)))
    ELSE FirstJoined(d, Tail(keys))

Extracted(text) == [ok |-> TRUE, text |-> text]
\* raise RuntimeError("Could not extract transcript text from raw transcript JSON.")
ExtractFailed == [ok |-> FALSE, text |-> <<>>]

\* the walk of the whole payload and the raise behind it
DeepStage(raw) ==
    LET chunks == deep_collect_text_fields(raw)
    IN  IF chunks # <<>> THEN Extracted(Strip(Join(chunks, <<"\n">>))) ELSE ExtractFailed

\* the root stages: raw["text"], then the array fields of the root
RootStage(raw) ==
    IF NonBlankStr(Get(raw, "text")) THEN Extracted(Strip(Get(raw, "text").s))
    ELSE IF FirstJoined(raw, ArrayKeys) # <<>> THEN Extracted(FirstJoined(raw, ArrayKeys))
    ELSE DeepStage(raw)

\* a bug: the transcript's array fields are searched before its scalar fields
extract_text_arrays_first(raw) ==
    IF raw.t # "dict" THEN DeepStage(raw)
    ELSE LET t == Get(raw, "transcript")
         IN  IF t.t = "dict" /\ FirstJoined(t, ArrayKeys) # <<>>
             THEN Extracted(FirstJoined(t, ArrayKeys))
             ELSE IF t.t = "dict" /\ FirstNonBlank(t, ScalarKeys) # <<>>
             THEN Extracted(FirstNonBlank(t, ScalarKeys)[1])
             ELSE RootStage(raw)

extract_text_from_raw_transcript(raw) ==
    IF raw.t # "dict" THEN DeepStage(raw)
    ELSE LET t == Get(raw, "transcript")
         IN  IF t.t = "dict" /\ FirstNonBlank(t, ScalarKeys) # <<>>
             THEN Extracted(FirstNonBlank(t, ScalarKeys)[1])
             ELSE IF t.t = "dict" /\ FirstJoined(t, ArrayKeys) # <<>>
             THEN Extracted(FirstJoined(t, ArrayKeys))
             ELSE RootStage(raw)

(***************************************************************************)
(* Files                                                                   *)
(***************************************************************************)
EmptyDir == [p \in {} |-> <<>>]
\* a bug: the file is opened for appending
WriteTextAppend(dir, path, content) ==
    (path :> (IF path \in DOMAIN dir THEN dir[path] \o content ELSE content)) @@ dir
\* Path.write_text: creates the file or replaces its content
WriteText(dir, path, content) == (path :> content) @@ dir
\* Path.unlink
Unlink(dir, path) == [p \in DOMAIN dir \ {path} |-> dir[p]]
\* Path.exists
Exists(dir, path) == path \in DOMAIN dir

(***************************************************************************)
(* meta_to_txt.py: meta_obj_to_txt                                         *)
(* A record is [id, eventId, title, updatedAt, fileUrl]: title is          *)
(* event.title (None also when the record has no event), fileUrl is        *)
(* whether the record has a non-empty fileUrl.  A literal that is only     *)
(* appended to a file name (".txt", "_event_") is one element of a string. *)
(***************************************************************************)
\* event.get("title") or f"transcript_{meta_obj.get('id')}"
TranscriptTitle(meta_obj) ==
    IF meta_obj.title.some /\ meta_obj.title.s # <<>> THEN meta_obj.title.s
    ELSE <<"t", "r", "a", "n", "s", "c", "r", "i", "p", "t", "_">> \o IdStr(meta_obj.id)

\* f"{safe_title}{suffix}.txt" in transcript_raw/<ticker.lower()>
TxtPath(meta_obj) ==
    sanitize_filename(TranscriptTitle(meta_obj), TranscriptMaxLen, <<"transcript">>)
        \o (IF meta_obj.id.int THEN <<"_">> \o IntStr(meta_obj.id.n) ELSE <<>>)
        \o <<".txt">>

Raised(dir) == [raised |-> TRUE, path |-> <<>>, dir |-> dir]
Returned(path, dir) == [raised |-> FALSE, path |-> path, dir |-> dir]

\* resp is what download_json meets: [ok |-> a 2xx answer, body |-> its JSON]
meta_obj_to_txt(dir, meta_obj, resp) ==
    IF ~meta_obj.fileUrl THEN Raised(dir)
    ELSE IF ~resp.ok THEN Raised(dir)
    ELSE LET text == extract_text_from_raw_transcript(resp.body)
         IN  IF ~text.ok THEN Raised(dir)
             ELSE Returned(TxtPath(meta_obj),
                           WriteText(dir, TxtPath(meta_obj), text.text \o <<"\n">>))

(***************************************************************************)
(* slides_to_txt.py                                                        *)
(* A deck record has the shape of a transcript record.  A PDF is the       *)
(* sequence of what page.extract_text() returns for its pages: a string    *)
(* or None.                                                                *)
(***************************************************************************)
\* txt.replace("\r", "\n")
ReplaceCR(s) == [i \in 1..Len(s) |-> IF s[i] = "\r" THEN "\n" ELSE s[i]]

\* _normalize_one_line(page.extract_text() or "")
normalize_one_line(txt) ==
    Strip(CollapseSpace(ReplaceCR(IF txt.some THEN txt.s ELSE <<>>)))

RECURSIVE SumLen(_)
SumLen(lines) == IF lines = <<>> THEN 0 ELSE Len(Head(lines)) + SumLen(Tail(lines))

\* _pdf_bytes_to_page_lines: the lines and the metrics; coverage is kept as the
\* fraction non_empty_pages / pages
pdf_bytes_to_page_lines(pages) ==
    LET lines == [i \in 1..Len(pages) |-> normalize_one_line(pages[i])]
    IN  [lines |-> lines,
         pages |-> Len(lines),
         non_empty_pages |-> Cardinality({i \in 1..Len(lines) : lines[i] # <<>>}),
         total_chars |-> SumLen(lines)]

\* min_coverage = 0.20, as a percentage, and min_total_chars
min_coverage_percent == 20
min_total_chars == 200

\* a bug: the file is refused only when both thresholds are missed
TooSparseBoth(m) ==
    /\ 100 * m.non_empty_pages < min_coverage_percent * m.pages
    /\ m.total_chars < min_total_chars
\* metrics["coverage"] < min_coverage or metrics["total_chars"] < min_total_chars.
\* non_empty / pages < 0.20 in floating point is 100 * non_empty < 20 * pages for
\* every page count a PDF can have (the two differ only past 10^15 pages)
TooSparse(m) ==
    \/ 100 * m.non_empty_pages < min_coverage_percent * m.pages
    \/ m.total_chars < min_total_chars


\* event.get("title") or f"event_{event_id}"
SlidesTitle(deck_obj) ==
    IF deck_obj.title.some /\ deck_obj.title.s # <<>> THEN deck_obj.title.s
    ELSE <<"e", "v", "e", "n", "t", "_">> \o IdStr(deck_obj.eventId)

\* f"{safe_title}_event_{event_id}_deck_{deck_id}.txt" in slides_text/<ticker.lower()>
SlidesPath(deck_obj) ==
    sanitize_filename(SlidesTitle(deck_obj), SlidesMaxLen, <<"slides">>)
        \o <<"_event_">> \o IdStr(deck_obj.eventId)
        \o <<"_deck_">> \o IdStr(deck_obj.id) \o <<".txt">>

\* the deck whose fileUrl is downloaded: the record itself, or the detail fetched by
\* its id.  detail is [ok |-> a 2xx answer, data |-> detail.get("data") or {}]
ResolveDeck(deck_obj, detail) ==
    IF deck_obj.fileUrl THEN [ok |-> TRUE, deck |-> deck_obj]
    ELSE IF ~deck_obj.id.int THEN [ok |-> FALSE, deck |-> deck_obj]
    ELSE IF ~detail.ok THEN [ok |-> FALSE, deck |-> deck_obj]
    ELSE [ok |-> detail.data.fileUrl, deck |-> detail.data]

\* a bug: the text is written before the quality gate is applied
slide_deck_obj_to_txt_ungated(dir, deck_obj, detail, pdf) ==
    LET resolved == ResolveDeck(deck_obj, detail)
        m == pdf_bytes_to_page_lines(pdf.pages)
        written == WriteText(dir, SlidesPath(resolved.deck),
                             Join(m.lines, <<"\n">>) \o <<"\n">>)
    IN  IF ~resolved.ok THEN Raised(dir)
        ELSE IF ~pdf.ok THEN Raised(dir)
        ELSE IF m.pages = 0 THEN Raised(written)
        ELSE IF TooSparse(m) THEN Raised(written)
        ELSE Returned(SlidesPath(resolved.deck), written)

\* pdf is what _download_pdf_bytes and PdfReader meet: [ok, pages]
slide_deck_obj_to_txt(dir, deck_obj, detail, pdf) ==
    LET resolved == ResolveDeck(deck_obj, detail)
        m == pdf_bytes_to_page_lines(pdf.pages)
    IN  IF ~resolved.ok THEN Raised(dir)
        ELSE IF ~pdf.ok THEN Raised(dir)
        ELSE IF m.pages = 0 THEN Raised(dir)
        ELSE IF TooSparse(m) THEN Raised(dir)
        ELSE Returned(SlidesPath(resolved.deck),
                      WriteText(dir, SlidesPath(resolved.deck),
                                Join(m.lines, <<"\n">>) \o <<"\n">>))

(***************************************************************************)
(* get_meta.py                                                             *)
(***************************************************************************)
UpperCase == <<"A", "B", "C", "D", "E", "F", "G", "H", "I", "J", "K", "L", "M",
               "N", "O", "P", "Q", "R", "S", "T", "U", "V", "W", "X", "Y", "Z">>
LowerCase == <<"a", "b", "c", "d", "e", "f", "g", "h", "i", "j", "k", "l", "m",
               "n", "o", "p", "q", "r", "s", "t", "u", "v", "w", "x", "y", "z">>
\* str.lower(), character by character
Lower(c) ==
    IF \E i \in 1..26 : UpperCase[i] = c
    THEN LowerCase[CHOOSE i \in 1..26 : UpperCase[i] = c] ELSE c
\* \w: a letter, a digit or the underscore
IsWord(c) ==
    \/ \E i \in 1..26 : c = UpperCase[i] \/ c = LowerCase[i]
    \/ \E i \in 1..10 : c = Digits[i]
    \/ c = "_"

RECURSIVE StripDash(_)
\* s.strip("-")
StripDash(s) ==
    IF s # <<>> /\ Head(s) = "-" THEN StripDash(Tail(s))
    ELSE IF s # <<>> /\ s[Len(s)] = "-" THEN StripDash(SubSeq(s, 1, Len(s) - 1))
    ELSE s

SlugMaxLen == 80

sanitize_slug(str, max_len) ==
    LET lowered == [i \in 1..Len(Strip(str)) |-> Lower(Strip(str)[i])]
        \* re.sub(r"[^\w\s-]", "", s)
        kept == SelectSeq(lowered, LAMBDA c : IsWord(c) \/ IsSpace(c) \/ c = "-")
        \* re.sub(r"\s+", "-", s)
        dashed == [i \in 1..Len(CollapseSpace(kept)) |->
                      IF CollapseSpace(kept)[i] = " " THEN "-" ELSE CollapseSpace(kept)[i]]
        cut == StripDash(Truncate(dashed, max_len))
    IN  IF cut = <<>> THEN <<"i", "t", "e", "m">> ELSE cut

\* int(next_cursor) of a string of digits
RECURSIVE ParseInt(_)
ParseInt(s) ==
    IF s = <<>> THEN 0
    ELSE 10 * ParseInt(SubSeq(s, 1, Len(s) - 1))
             + (CHOOSE d \in 0..9 : Digits[d + 1] = s[Len(s)])

\* nextCursor of a response: absent or null, a number, or a string of digits
NoCursor == [kind |-> "none", n |-> 0, s |-> <<>>]
IntCursor(n) == [kind |-> "int", n |-> n, s |-> <<>>]
StrCursor(n) == [kind |-> "str", n |-> 0, s |-> IntStr(n)]
\* int(next_cursor)
PyInt(c) == IF c.kind = "int" THEN c.n ELSE ParseInt(c.s)

\* a response to GET /documents/transcripts: the status, whether "data" is a list,
\* the list, and pagination.nextCursor
Response(ok, is_list, data, next) == [ok |-> ok, is_list |-> is_list, data |-> data, next |-> next]

\* a bug: the status of the response is not looked at, and an error body has no data
StatusIgnored(resp) == FALSE
\* r.raise_for_status() of quartr_get raises
StatusRaises(resp) == ~resp.ok

\* not isinstance(data, list) or not data: the loop breaks before extend
NoData(resp) == ~resp.is_list \/ resp.data = <<>>

\* a bug: the page without nextCursor is dropped
ExtendUnlessLast(items, resp) == IF resp.next.kind = "none" THEN items ELSE items \o resp.data
\* all_items after a response with data: all_items.extend(data)
Extend(items, resp) == items \o resp.data

\* title = event.get("title") or f"event_{item.get('eventId')}", slugged, then
\* f"{safe_title}_{doc_id}.json"
MetaPath(item) ==
    sanitize_slug(IF item.title.some /\ item.title.s # <<>> THEN item.title.s
                  ELSE <<"e", "v", "e", "n", "t", "_">> \o IdStr(item.eventId), SlugMaxLen)
        \o <<"_">> \o IdStr(item.id) \o <<".json">>
IndexPath == <<"_index.json">>

\* the content of a JSON file: an object (one record) or an array of records
JsonObject(item) == [array |-> FALSE, items |-> <<item>>]
JsonArray(items) == [array |-> TRUE, items |-> items]

\* a bug: the index is built from the records that got a file of their own
IndexContentOfWritten(items) == JsonArray(SelectSeq(items, LAMBDA it : it.id.int))
\* what _index.json is given: json.dumps(items)
IndexContent(items) == JsonArray(items)

\* the per-record paths write_meta_files writes: records without an int id are skipped
MetaPaths(items) == {MetaPath(items[i]) : i \in {j \in 1..Len(items) : items[j].id.int}}

\* the files the loop `for item in items` leaves: a record without an int id is
\* skipped, and of the records written to one path the last one stays
RecordFiles(items) ==
    LET written == {<<MetaPath(items[i]), i>> : i \in {j \in 1..Len(items) : items[j].id.int}}
        last(p) == CHOOSE w \in written : w[1] = p /\ \A v \in written : v[1] = p => v[2] <= w[2]
    IN  [p \in {w[1] : w \in written} |-> JsonObject(items[last(p)[2]])]

\* write_meta_files: the per-record files, then _index.json
write_meta_files(dir, items) ==
    (IndexPath :> IndexContent(items)) @@ RecordFiles(items) @@ dir

(***************************************************************************)
(* manager.py: choose_best                                                 *)
(***************************************************************************)
\* str.__lt__: lexicographic order on code points
RECURSIVE StrLess(_, _)
StrLess(a, b) ==
    IF b = <<>> THEN FALSE
    ELSE IF a = <<>> THEN TRUE
    ELSE IF Head(a) # Head(b) THEN Head(a) < Head(b)
    ELSE StrLess(Tail(a), Tail(b))

\* k(x): x.get("updatedAt") or ""
SortKey(x) == IF x.updatedAt.some /\ x.updatedAt.s # <<>> THEN x.updatedAt.s ELSE <<>>

RECURSIVE InsertStable(_, _)
\* insertion behind every element that is not greater: equal keys keep their order
InsertStable(sorted, x) ==
    IF sorted = <<>> THEN <<x>>
    ELSE IF StrLess(SortKey(x), SortKey(Head(sorted))) THEN <<x>> \o sorted
    ELSE <<Head(sorted)>> \o InsertStable(Tail(sorted), x)

RECURSIVE SortStable(_)
\* list.sort(): ascending and stable
SortStable(s) ==
    IF s = <<>> THEN <<>>
    ELSE InsertStable(SortStable(SubSeq(s, 1, Len(s) - 1)), s[Len(s)])

\* sorted(items, key=k, reverse=True): CPython reverses, sorts stably, reverses back
SortedReverse(s) == Reverse(SortStable(Reverse(s)))

\* the {} that choose_best returns for an empty list
EmptyRecord == [id |-> NoInt, eventId |-> NoInt, title |-> NoneStr,
                updatedAt |-> NoneStr, fileUrl |-> FALSE]

\* a bug: ascending sort, last element taken (the last of the tied records wins)
choose_best_last(items) ==
    IF items = <<>> THEN EmptyRecord ELSE SortStable(items)[Len(items)]

choose_best(items) ==
    IF items = <<>> THEN EmptyRecord ELSE SortedReverse(items)[1]

RECURSIVE EventIds(_)
\* the keys of by_event in insertion order: the int eventIds, each at its first record
EventIds(its) ==
    IF its = <<>> THEN <<>>
    ELSE LET front == EventIds(SubSeq(its, 1, Len(its) - 1))
             eid == its[Len(its)].eventId
         IN  IF eid.int /\ \A i \in 1..Len(front) : front[i] # eid.n
             THEN Append(front, eid.n) ELSE front

\* by_event: for each key the records with that eventId, in input order
GroupByEvent(its) ==
    [k \in 1..Len(EventIds(its)) |->
        [event_id |-> EventIds(its)[k],
         metas |-> SelectSeq(its, LAMBDA it : it.eventId.int /\ it.eventId.n = EventIds(its)[k])]]

(***************************************************************************)
(* Records of the remote API                                               *)
(***************************************************************************)
\* updatedAt values: missing, "", "1", "13", "3" (code points)
UpdatedAtVals == {NoneStr, SomeStr(<<>>), SomeStr(<<49>>), SomeStr(<<49, 51>>), SomeStr(<<51>>)}

MaxChooseItems == 3

\* a transcript-document record as choose_best reads it; the i-th of a list has id i
ChooseRecord(i, u) ==
    [id |-> SomeInt(i), eventId |-> SomeInt(1), title |-> NoneStr,
     updatedAt |-> u, fileUrl |-> TRUE]

ChooseLists ==
    UNION {{[i \in 1..n |-> ChooseRecord(i, f[i])] : f \in [1..n -> UpdatedAtVals]} :
           n \in 0..MaxChooseItems}

\* no call of slide_deck_obj_to_txt yet
NoCall == [deck |-> EmptyRecord, detail |-> [ok |-> FALSE, data |-> EmptyRecord],
           pdf |-> [ok |-> FALSE, pages |-> <<>>], before |-> EmptyDir,
           raised |-> FALSE, path |-> <<>>]

(***************************************************************************)
(* Idle values of the variables a specification does not use               *)
(***************************************************************************)
FsIdle == transcript_raw = EmptyDir /\ slides_text = EmptyDir
ChooseIdle == c_items = <<>> /\ c_best = EmptyRecord /\ c_pc = "idle"
TextIdle == t_raw = JNull /\ t_out = ExtractFailed /\ t_pc = "idle"
ExtractIdle ==
    x_meta = EmptyRecord /\ x_remote = [ok |-> FALSE, body |-> JNull] /\ x_runs = <<>>

SlideIdle == s_call = NoCall /\ s_pc = "idle"
FetchIdle ==
    /\ f_dataset = <<>> /\ f_server = "idle" /\ transcript_meta = EmptyDir
    /\ f_pc = "idle" /\ cursor = 0 /\ all_items = <<>> /\ f_resps = <<>>
    /\ f_reqs = <<>> /\ f_before = EmptyDir /\ f_wrote = {} /\ f_runs = 0
\* what the iteration of main() has done so far
NoIteration == [p0 |-> 0, s0 |-> 0, wrote_txt |-> NoneStr, wrote_slides |-> NoneStr,
                unlink_failed |-> FALSE]
MainIdle ==
    /\ pc = "idle" /\ index_items = <<>> /\ by_event = <<>> /\ event_at = 0
    /\ transcript_meta_rec = EmptyRecord /\ deck_meta = EmptyRecord
    /\ txt_path = NoneStr /\ slides_txt_path = NoneStr
    /\ processed = 0 /\ skipped = 0 /\ o_raised = "none"
    /\ o_iter = NoIteration /\ o_log = <<>>

(***************************************************************************)
(* Specification of choose_best on its own                                 *)
(***************************************************************************)
ChooseInit ==
    /\ c_items \in ChooseLists
    /\ c_best = EmptyRecord
    /\ c_pc = "input"
    /\ FsIdle /\ TextIdle /\ ExtractIdle /\ SlideIdle /\ FetchIdle /\ MainIdle

ChooseBest ==
    /\ c_pc = "input"
    /\ c_best' = choose_best(c_items)
    /\ c_pc' = "chosen"
    /\ UNCHANGED <<c_items, fsVars, textVars, extractVars, slideVars, fetchVars, mainVars>>

SpecChoose == ChooseInit /\ [][ChooseBest]_vars

(***************************************************************************)
(* Transcript payloads                                                     *)
(***************************************************************************)
\* one key of a dict, and the dict of a sequence of keys
Field(k, v) == <<[k |-> k, v |-> v]>>
DictOf(fields) ==
    JDict([i \in 1..Len(fields) |-> fields[i].k], [i \in 1..Len(fields) |-> fields[i].v])
Txt(c) == JStr(<<c>>)
Blank == JStr(<<" ">>)
Padded(c) == JStr(<<" ", c, "\n">>)
TextObj(c) == DictOf(Field("text", Txt(c)))

\* {"transcript": {"segments": [{"text": "A"}, {"text": "B"}]}}
PayloadSegments ==
    DictOf(Field("transcript", DictOf(Field("segments", JList(<<TextObj("A"), TextObj("B")>>)))))
\* {"a": {"text": "X"}, "b": [{"text": "X"}, {"text": "Y"}]}
PayloadNested ==
    DictOf(Field("a", TextObj("X")) \o Field("b", JList(<<TextObj("X"), TextObj("Y")>>)))

TranscriptScalarFields ==
    { <<>>,
      Field("text", Padded("T")),
      Field("text", Blank) \o Field("plainText", Txt("P")),
      Field("text", JNum) \o Field("body", Txt("B")),
      Field("body", Txt("B")) \o Field("content", Txt("C")) }
TranscriptArrayFields ==
    { <<>>,
      Field("segments", JList(<<TextObj("A"), TextObj("B")>>)),
      Field("segments", JList(<<>>)) \o Field("entries", JList(<<Padded("E"), Blank>>)),
      Field("items", JList(<<DictOf(Field("value", Txt("V"))), JNum,
                             DictOf(Field("content", Blank) \o Field("value", Txt("W")))>>))
          \o Field("turns", JList(<<Txt("U")>>)),
      Field("segments", Txt("S")),
      Field("turns", JList(<<DictOf(Field("speech", TextObj("D")))>>)) }
TranscriptFields ==
    {<<>>, Field("transcript", Txt("X"))}
        \cup {Field("transcript", DictOf(a \o b)) :
                 a \in TranscriptScalarFields, b \in TranscriptArrayFields}
RootTextFields == {<<>>, Field("text", Blank), Field("text", Padded("R"))}
RootArrayFields ==
    { <<>>,
      Field("paragraphs", JList(<<Txt("P1"), Txt("P2")>>)),
      Field("speakerTurns", JList(<<DictOf(Field("other", Txt("Z")))>>)) }
NestedFields ==
    { <<>>,
      Field("a", TextObj("X")) \o Field("b", JList(<<TextObj("X"), TextObj("Y")>>)),
      Field("a", TextObj("X")) \o Field("b", JList(<<TextObj("Y"), TextObj("X")>>)),
      Field("c", JList(<<JList(<<TextObj("X")>>), DictOf(Field("d", TextObj("X")))>>)) }

\* the payloads extract_text_from_raw_transcript is applied to
Payloads ==
    {DictOf(t \o x \o r \o n) : t \in TranscriptFields, x \in RootTextFields,
                                r \in RootArrayFields, n \in NestedFields}
        \cup {DictOf(n \o r \o x \o t) : t \in TranscriptFields, x \in RootTextFields,
                                         r \in RootArrayFields, n \in NestedFields}
        \cup {JList(<<TextObj("X"), TextObj("X"), JList(<<TextObj("Y")>>)>>),
              JList(<<>>), Txt("X"), JNull}

(***************************************************************************)
(* Specification of extract_text_from_raw_transcript on its own            *)
(***************************************************************************)
TextInit ==
    /\ t_raw \in Payloads
    /\ t_out = ExtractFailed
    /\ t_pc = "input"
    /\ FsIdle /\ ChooseIdle /\ ExtractIdle /\ SlideIdle /\ FetchIdle /\ MainIdle

ExtractText ==
    /\ t_pc = "input"
    /\ t_out' = extract_text_from_raw_transcript(t_raw)
    /\ t_pc' = "done"
    /\ UNCHANGED <<t_raw, fsVars, chooseVars, extractVars, slideVars, fetchVars, mainVars>>

SpecText == TextInit /\ [][ExtractText]_vars

(***************************************************************************)
(* Specification of meta_obj_to_txt run again and again for one record     *)
(***************************************************************************)
MaxRuns == 2

Titles == {NoneStr, SomeStr(<<>>), SomeStr(<<"Q", "1">>), SomeStr(<<" ", "Q", ":", " ", "\n", " ", "1">>),
           SomeStr(<<"/", " ">>)}
ExtractMetas ==
    {[id |-> i, eventId |-> SomeInt(1), title |-> t, updatedAt |-> NoneStr, fileUrl |-> u] :
        i \in {NoInt, SomeInt(7), SomeInt(12)}, t \in Titles, u \in BOOLEAN}
\* what a fileUrl may serve: an error status, or a JSON payload
ExtractRemotes ==
    {[ok |-> FALSE, body |-> JNull]}
        \cup {[ok |-> TRUE, body |-> b] :
                 b \in {PayloadSegments, PayloadNested, DictOf(Field("text", Blank))}}
\* the directory before the first run: empty, or holding files of earlier runs
ExtractDirs ==
    {EmptyDir,
     WriteText(EmptyDir, <<"Q1.txt">>, <<"old", "\n">>),
     WriteText(EmptyDir, <<"Q", "1", ".txt">>, <<"old", "\n">>),
     WriteText(EmptyDir, <<"Q", "1", "_", "7", ".txt">>, <<"old", "\n">>)}

ExtractInit ==
    /\ x_meta \in ExtractMetas
    /\ x_remote \in ExtractRemotes
    /\ x_runs = <<>>
    /\ transcript_raw \in ExtractDirs
    /\ slides_text = EmptyDir
    /\ ChooseIdle /\ TextIdle /\ SlideIdle /\ FetchIdle /\ MainIdle

\* one run of meta_obj_to_txt(api_key, ticker, x_meta); the log keeps what the
\* fileUrl served, whether the run raised, the path returned and the directory left
MetaObjToTxtRun ==
    /\ Len(x_runs) < MaxRuns
    /\ LET r == meta_obj_to_txt(transcript_raw, x_meta, x_remote)
       IN  /\ transcript_raw' = r.dir
           /\ x_runs' = Append(x_runs, [remote |-> x_remote, raised |-> r.raised,
                                        path |-> r.path, dir |-> r.dir])
    /\ UNCHANGED <<x_meta, x_remote, slides_text, chooseVars, textVars, slideVars, fetchVars, mainVars>>

\* the remote payload is replaced between two runs
RemoteUpdate ==
    /\ Len(x_runs) < MaxRuns
    /\ \E r \in ExtractRemotes : r # x_remote /\ x_remote' = r
    /\ UNCHANGED <<x_meta, x_runs, fsVars, chooseVars, textVars, slideVars, fetchVars, mainVars>>

SpecExtract == ExtractInit /\ [][MetaObjToTxtRun \/ RemoteUpdate]_vars

(***************************************************************************)
(* Specification of slide_deck_obj_to_txt on its own                       *)
(***************************************************************************)
MaxPages == 3

Repeat(c, n) == [i \in 1..n |-> c]
\* what page.extract_text() may return: None, "", blanks, 50 characters once
\* normalized, and 100, 199 and 200 characters
PageTexts ==
    {NoneStr, SomeStr(<<>>), SomeStr(<<" ", "\r", "\n">>),
     SomeStr(<<"\n">> \o Repeat("a", 30) \o <<" ", "\r", "\n", "\t">> \o Repeat("b", 19) \o <<" ">>),
     SomeStr(Repeat("c", 100)), SomeStr(Repeat("d", 199)), SomeStr(Repeat("e", 200))}
Page50 == SomeStr(<<"\n">> \o Repeat("a", 30) \o <<" ", "\r", "\n", "\t">> \o Repeat("b", 19) \o <<" ">>)
Page100 == SomeStr(Repeat("c", 100))
\* 10 pages, 3 of them with text, 250 characters
PdfTen250 ==
    <<NoneStr, Page100, NoneStr, NoneStr, Page50, SomeStr(<<>>), NoneStr, Page100, NoneStr, NoneStr>>
\* 10 pages, 1 of them with text, 50 characters
PdfTen50 ==
    <<NoneStr, NoneStr, NoneStr, Page50, NoneStr, NoneStr, NoneStr, NoneStr, NoneStr, NoneStr>>
\* 5 and 6 pages, 1 of them with 200 characters: coverage 0.20 and below it
PdfFive200 == <<NoneStr, NoneStr, SomeStr(Repeat("e", 200)), NoneStr, NoneStr>>
PdfSix200 == <<NoneStr, NoneStr, SomeStr(Repeat("e", 200)), NoneStr, NoneStr, NoneStr>>
Pdfs == SeqsUpTo(PageTexts, MaxPages) \cup {PdfTen250, PdfTen50, PdfFive200, PdfSix200}

SlideDeck(i, t, u) ==
    [id |-> i, eventId |-> SomeInt(4), title |-> t, updatedAt |-> NoneStr, fileUrl |-> u]
SlideDecks ==
    {SlideDeck(i, t, u) : i \in {NoInt, SomeInt(9)}, t \in {NoneStr, SomeStr(<<"Q", "1">>)},
                          u \in BOOLEAN}
\* GET /documents/slides/{id}: an error status, no data, or the deck with or
\* without its fileUrl
SlideDetails(deck_obj) ==
    {[ok |-> FALSE, data |-> EmptyRecord], [ok |-> TRUE, data |-> EmptyRecord],
     [ok |-> TRUE, data |-> deck_obj], [ok |-> TRUE, data |-> [deck_obj EXCEPT !.fileUrl = TRUE]]}
SlideDirs ==
    {EmptyDir, WriteText(EmptyDir, <<"Q", "1", "_event_", "4", "_deck_", "9", ".txt">>, <<"old", "\n">>)}

SlideInit ==
    /\ s_call = NoCall
    /\ s_pc = "input"
    /\ slides_text \in SlideDirs
    /\ transcript_raw = EmptyDir
    /\ ChooseIdle /\ TextIdle /\ ExtractIdle /\ FetchIdle /\ MainIdle

\* one call of slide_deck_obj_to_txt.  The detail request is made only for a deck
\* without fileUrl, the download only for a resolved deck.
SlideDeckObjToTxt ==
    /\ s_pc = "input"
    /\ \E deck_obj \in SlideDecks :
       \E detail \in IF deck_obj.fileUrl \/ ~deck_obj.id.int THEN {NoCall.detail}
                     ELSE SlideDetails(deck_obj) :
       \E pdf \in IF ~ResolveDeck(deck_obj, detail).ok THEN {NoCall.pdf}
                  ELSE {NoCall.pdf} \cup {[ok |-> TRUE, pages |-> pp] : pp \in Pdfs} :
          LET r == slide_deck_obj_to_txt(slides_text, deck_obj, detail, pdf)
          IN  /\ slides_text' = r.dir
              /\ s_call' = [deck |-> deck_obj, detail |-> detail, pdf |-> pdf,
                            before |-> slides_text, raised |-> r.raised, path |-> r.path]
    /\ s_pc' = "done"
    /\ UNCHANGED <<transcript_raw, chooseVars, textVars, extractVars, fetchVars, mainVars>>

SpecSlides == SlideInit /\ [][SlideDeckObjToTxt]_vars

(***************************************************************************)
(* Specification of build_meta_for_ticker, run again and again             *)
(***************************************************************************)
MaxRecords == 2
MaxFetches == 2
\* limit: int = 200
Limit == 200
MetaRecord(i, hasId, t) ==
    [id |-> IF hasId THEN SomeInt(i) ELSE NoInt, eventId |-> SomeInt(i), title |-> t,
     updatedAt |-> NoneStr, fileUrl |-> TRUE]
\* the remote data sets: the i-th record has id i, or no int id
Datasets ==
    UNION {{[i \in 1..n |-> MetaRecord(i, h[i], t[i])] :
               h \in [1..n -> BOOLEAN], t \in [1..n -> {NoneStr, SomeStr(<<"Q", "1", " ", "C", "a", "l", "l", "!">>)}]} : n \in 0..MaxRecords}
\* 550 records, served in pages of 200, 200 and 150
BigDataset == [i \in 1..550 |-> MetaRecord(i, TRUE, NoneStr)]

\* the page of k records behind cursor c
DataPage(c, k, next) == Response(TRUE, TRUE, SubSeq(f_dataset, c + 1, c + k), next)
Remaining(c) == IF c < Len(f_dataset) THEN Len(f_dataset) - c ELSE 0
\* what the server may answer to a request with cursor c.  "any": an error status,
\* a payload whose data is no list, or a page of any size up to limit, with the next
\* cursor as a number, as a string, or left out.  "full": pages of limit records,
\* each non-empty one with a next cursor.  "fullEnd": pages of limit records, the
\* last one without a next cursor.
Responses(c) ==
    IF f_server = "any"
    THEN {Response(FALSE, FALSE, <<>>, NoCursor), Response(TRUE, FALSE, <<>>, NoCursor)}
            \cup UNION {{DataPage(c, k, next) :
                            next \in {NoCursor, IntCursor(c + k), StrCursor(c + k)}} :
                        k \in 1..Min(Limit, Remaining(c))}
            \cup {DataPage(c, 0, next) : next \in {NoCursor, IntCursor(c)}}
    ELSE IF f_server = "full"
    THEN {DataPage(c, Min(Limit, Remaining(c)),
                   IF Remaining(c) > 0 THEN IntCursor(c + Min(Limit, Remaining(c))) ELSE NoCursor)}
    ELSE {DataPage(c, Min(Limit, Remaining(c)),
                   IF Remaining(c) > Limit THEN IntCursor(c + Limit) ELSE NoCursor)}

FetchInit ==
    /\ \/ f_dataset \in Datasets /\ f_server = "any"
       \/ f_dataset = BigDataset /\ f_server \in {"full", "fullEnd"}
    /\ transcript_meta = EmptyDir
    /\ f_pc = "paging" /\ cursor = 0 /\ all_items = <<>>
    /\ f_resps = <<>> /\ f_reqs = <<>> /\ f_before = EmptyDir /\ f_wrote = {} /\ f_runs = 1
    /\ FsIdle /\ ChooseIdle /\ TextIdle /\ ExtractIdle /\ SlideIdle /\ MainIdle

\* the request of the loop, with the current cursor, and its response
Request(resp) ==
    /\ f_pc = "paging"
    /\ resp \in Responses(cursor)
    /\ f_reqs' = Append(f_reqs, cursor)
    /\ f_resps' = Append(f_resps, resp)

\* return all_items, then write_meta_files(ticker, items)
ReturnAndWrite(items) ==
    /\ all_items' = items
    /\ transcript_meta' = write_meta_files(transcript_meta, items)
    /\ f_wrote' = MetaPaths(items) \cup {IndexPath}
    /\ f_pc' = "done"
    /\ UNCHANGED cursor

\* raise_for_status raises: the exception leaves build_meta_for_ticker
PageRaises ==
    /\ \E resp \in Responses(cursor) : Request(resp) /\ StatusRaises(resp)
    /\ f_pc' = "failed"
    /\ UNCHANGED <<f_dataset, f_server, transcript_meta, cursor, all_items, f_before,
                   f_wrote, f_runs>>
    /\ UNCHANGED <<fsVars, chooseVars, textVars, extractVars, slideVars, mainVars>>

\* data is no list or is empty: break
PageEmpty ==
    /\ \E resp \in Responses(cursor) :
          Request(resp) /\ ~StatusRaises(resp) /\ NoData(resp)
    /\ ReturnAndWrite(all_items)
    /\ UNCHANGED <<f_dataset, f_server, f_before, f_runs>>
    /\ UNCHANGED <<fsVars, chooseVars, textVars, extractVars, slideVars, mainVars>>

\* a page without nextCursor: extend, break
PageLast ==
    /\ \E resp \in Responses(cursor) :
          /\ Request(resp) /\ ~StatusRaises(resp) /\ ~NoData(resp)
          /\ resp.next.kind = "none"
          /\ ReturnAndWrite(Extend(all_items, resp))
    /\ UNCHANGED <<f_dataset, f_server, f_before, f_runs>>
    /\ UNCHANGED <<fsVars, chooseVars, textVars, extractVars, slideVars, mainVars>>

\* a page with nextCursor: extend, cursor = int(next_cursor)
PageNext ==
    /\ \E resp \in Responses(cursor) :
          /\ Request(resp) /\ ~StatusRaises(resp) /\ ~NoData(resp)
          /\ resp.next.kind # "none"
          /\ all_items' = Extend(all_items, resp)
          /\ cursor' = PyInt(resp.next)
    /\ UNCHANGED <<f_dataset, f_server, transcript_meta, f_pc, f_before, f_wrote, f_runs>>
    /\ UNCHANGED <<fsVars, chooseVars, textVars, extractVars, slideVars, mainVars>>

\* the script is run again
FetchAgain ==
    /\ f_pc \in {"done", "failed"}
    /\ f_runs < MaxFetches
    /\ f_runs' = f_runs + 1
    /\ f_pc' = "paging" /\ cursor' = 0 /\ all_items' = <<>>
    /\ f_resps' = <<>> /\ f_reqs' = <<>> /\ f_wrote' = {}
    /\ f_before' = transcript_meta
    /\ UNCHANGED <<f_dataset, f_server, transcript_meta>>
    /\ UNCHANGED <<fsVars, chooseVars, textVars, extractVars, slideVars, mainVars>>

SpecFetch ==
    FetchInit /\ [][PageRaises \/ PageEmpty \/ PageLast \/ PageNext \/ FetchAgain]_vars

(***************************************************************************)
(* Specification of main() of manager.py, for its one ticker               *)
(***************************************************************************)
MaxItems == 2
MaxDecks == 2

\* the records of an index: the i-th has id i, or no int id; records of one event
\* differ in updatedAt; a record may lack its fileUrl or its eventId
OrchKinds ==
    {[hasId |-> TRUE, updatedAt |-> SomeStr(<<>>), fileUrl |-> TRUE],
     [hasId |-> FALSE, updatedAt |-> SomeStr(<<49>>), fileUrl |-> TRUE],
     [hasId |-> TRUE, updatedAt |-> SomeStr(<<49>>), fileUrl |-> FALSE]}
OrchRecord(i, kind, eid) ==
    [id |-> IF kind.hasId THEN SomeInt(i) ELSE NoInt, eventId |-> eid,
     title |-> SomeStr(<<"Q", "1">>), updatedAt |-> kind.updatedAt, fileUrl |-> kind.fileUrl]
OrchIndexes ==
    UNION {{[i \in 1..n |-> OrchRecord(i, k[i], e[i])] :
               k \in [1..n -> OrchKinds],
               e \in [1..n -> {SomeInt(1), SomeInt(2), NoInt}]} :
           n \in 0..MaxItems}

\* the decks GET /documents/slides lists for an event: the j-th has id 10 * event + j,
\* or no int id, and carries the event's id, or none
DeckKinds ==
    {[hasId |-> TRUE, hasEvent |-> TRUE, updatedAt |-> SomeStr(<<>>), fileUrl |-> TRUE],
     [hasId |-> TRUE, hasEvent |-> TRUE, updatedAt |-> SomeStr(<<49>>), fileUrl |-> FALSE],
     [hasId |-> FALSE, hasEvent |-> TRUE, updatedAt |-> SomeStr(<<51>>), fileUrl |-> FALSE],
     [hasId |-> FALSE, hasEvent |-> FALSE, updatedAt |-> SomeStr(<<51>>), fileUrl |-> TRUE]}
DeckRecord(event_id, j, kind) ==
    [id |-> IF kind.hasId THEN SomeInt(10 * event_id + j) ELSE NoInt,
     eventId |-> IF kind.hasEvent THEN SomeInt(event_id) ELSE NoInt, title |-> NoneStr,
     updatedAt |-> kind.updatedAt, fileUrl |-> kind.fileUrl]
DeckLists(event_id) ==
    UNION {{[j \in 1..n |-> DeckRecord(event_id, j, k[j])] : k \in [1..n -> DeckKinds]} :
           n \in 1..MaxDecks}

\* what a transcript fileUrl may serve: an error status, a transcript, a payload
\* without text
OrchRemotes ==
    {[ok |-> FALSE, body |-> JNull], [ok |-> TRUE, body |-> PayloadSegments],
     [ok |-> TRUE, body |-> DictOf(Field("text", Blank))]}
\* what a deck fileUrl may serve: an error status, a PDF that passes the quality
\* gate, one that does not, one without pages
OrchPdfs ==
    {[ok |-> FALSE, pages |-> <<>>], [ok |-> TRUE, pages |-> PdfTen250],
     [ok |-> TRUE, pages |-> PdfTen50], [ok |-> TRUE, pages |-> <<>>]}

MainInit ==
    /\ pc = "start" /\ index_items = <<>> /\ by_event = <<>> /\ event_at = 0
    /\ transcript_meta_rec = EmptyRecord /\ deck_meta = EmptyRecord
    /\ txt_path = NoneStr /\ slides_txt_path = NoneStr
    /\ processed = 0 /\ skipped = 0 /\ o_raised = "none"
    /\ o_iter = NoIteration /\ o_log = <<>>
    /\ FsIdle /\ ChooseIdle /\ TextIdle /\ ExtractIdle /\ SlideIdle /\ FetchIdle

othersUnchanged == UNCHANGED <<chooseVars, textVars, extractVars, slideVars>>
fetchUnchanged ==
    UNCHANGED <<f_dataset, f_server, f_pc, cursor, all_items, f_resps, f_reqs, f_before,
                f_wrote, f_runs>>
localsUnchanged == UNCHANGED <<transcript_meta_rec, deck_meta, txt_path, slides_txt_path>>

\* build_meta_for_ticker raises: nothing catches it
BuildMetaRaises ==
    /\ pc = "start"
    /\ pc' = "aborted"
    /\ o_raised' = "build_meta"
    /\ UNCHANGED <<index_items, by_event, event_at, processed, skipped, o_iter, o_log,
                   transcript_meta, fsVars>>
    /\ localsUnchanged /\ fetchUnchanged /\ othersUnchanged

\* build_meta_for_ticker writes the index, main() reads it back; an empty index
\* ends the ticker ("No transcript metadata index_items found.")
BuildMeta ==
    /\ pc = "start"
    /\ \E fetched \in OrchIndexes :
          /\ transcript_meta' = write_meta_files(transcript_meta, fetched)
          /\ index_items' = transcript_meta'[IndexPath].items
    /\ by_event' = GroupByEvent(index_items')
    /\ pc' = IF index_items' = <<>> THEN "no_items" ELSE "events"
    /\ event_at' = 1
    /\ UNCHANGED <<processed, skipped, o_raised, o_iter, o_log, fsVars>>
    /\ localsUnchanged /\ fetchUnchanged /\ othersUnchanged

\* the end of an iteration: the next event, and the log entry of this one
NextEvent(outcome, p1, s1) ==
    /\ processed' = p1 /\ skipped' = s1
    /\ event_at' = event_at + 1
    /\ pc' = "events"
    /\ o_log' = Append(o_log,
                       [event_id |-> by_event[event_at].event_id, outcome |-> outcome,
                        raised |-> o_raised',
                        txt |-> IF outcome = "no_deck" THEN <<>>
                                ELSE TxtPath(transcript_meta_rec'),
                        slides |-> IF outcome = "no_deck" THEN <<>>
                                   ELSE SlidesPath(deck_meta'),
                        p1 |-> p1, s1 |-> s1,
                        iter |-> o_iter'])

\* list_slide_decks_for_event raises: it is called outside the try block
ListDecksRaises ==
    /\ pc = "events" /\ event_at <= Len(by_event)
    /\ pc' = "aborted"
    /\ o_raised' = "decks"
    /\ UNCHANGED <<index_items, by_event, event_at, processed, skipped, o_iter, o_log,
                   transcript_meta, fsVars>>
    /\ localsUnchanged /\ fetchUnchanged /\ othersUnchanged

\* list_slide_decks_for_event returns no deck: the event is skipped
NoDecks ==
    /\ pc = "events" /\ event_at <= Len(by_event)
    /\ o_raised' = "none"
    /\ o_iter' = [NoIteration EXCEPT !.p0 = processed, !.s0 = skipped]
    /\ NextEvent("no_deck", processed, skipped + 1)
    /\ UNCHANGED <<index_items, by_event, transcript_meta, fsVars>>
    /\ localsUnchanged /\ fetchUnchanged /\ othersUnchanged

\* list_slide_decks_for_event returns decks: the best transcript and the best deck
\* are chosen, and the try block is entered
ChooseBoth ==
    /\ pc = "events" /\ event_at <= Len(by_event)
    /\ \E decks \in DeckLists(by_event[event_at].event_id) :
          deck_meta' = choose_best(decks)
    /\ transcript_meta_rec' = choose_best(by_event[event_at].metas)
    /\ txt_path' = NoneStr /\ slides_txt_path' = NoneStr
    /\ o_raised' = "none"
    /\ o_iter' = [NoIteration EXCEPT !.p0 = processed, !.s0 = skipped]
    /\ pc' = "transcript"
    /\ UNCHANGED <<index_items, by_event, event_at, processed, skipped, o_log,
                   transcript_meta, fsVars>>
    /\ fetchUnchanged /\ othersUnchanged

\* txt_path = meta_obj_to_txt(...)
TranscriptStep ==
    /\ pc = "transcript"
    /\ \E resp \in OrchRemotes :
          LET r == meta_obj_to_txt(transcript_raw, transcript_meta_rec, resp)
          IN  /\ transcript_raw' = r.dir
              /\ txt_path' = IF r.raised THEN txt_path ELSE SomeStr(r.path)
              /\ pc' = IF r.raised THEN "except" ELSE "slides"
              /\ o_raised' = IF r.raised THEN "transcript" ELSE o_raised
              /\ o_iter' = [o_iter EXCEPT !.wrote_txt = IF r.raised THEN NoneStr
                                                         ELSE SomeStr(r.path)]
    /\ UNCHANGED <<index_items, by_event, event_at, transcript_meta_rec, deck_meta,
                   slides_txt_path, processed, skipped, o_log, transcript_meta, slides_text>>
    /\ fetchUnchanged /\ othersUnchanged

\* slides_txt_path = slide_deck_obj_to_txt(...) raises
SlidesStepRaises ==
    /\ pc = "slides"
    /\ \E detail \in IF deck_meta.fileUrl \/ ~deck_meta.id.int THEN {NoCall.detail}
                     ELSE SlideDetails(deck_meta) :
       \E pdf \in IF ~ResolveDeck(deck_meta, detail).ok THEN {NoCall.pdf} ELSE OrchPdfs :
          LET r == slide_deck_obj_to_txt(slides_text, deck_meta, detail, pdf)
          IN  /\ r.raised
              /\ slides_text' = r.dir
    /\ pc' = "except"
    /\ o_raised' = "slides"
    /\ UNCHANGED <<index_items, by_event, event_at, processed, skipped, o_iter, o_log,
                   transcript_meta, transcript_raw>>
    /\ localsUnchanged /\ fetchUnchanged /\ othersUnchanged

\* slides_txt_path = slide_deck_obj_to_txt(...) returns: processed += 1, and the
\* iteration ends
SlidesStep ==
    /\ pc = "slides"
    /\ \E detail \in IF deck_meta.fileUrl \/ ~deck_meta.id.int THEN {NoCall.detail}
                     ELSE SlideDetails(deck_meta) :
       \E pdf \in IF ~ResolveDeck(deck_meta, detail).ok THEN {NoCall.pdf} ELSE OrchPdfs :
          LET r == slide_deck_obj_to_txt(slides_text, deck_meta, detail, pdf)
          IN  /\ ~r.raised
              /\ slides_text' = r.dir
              /\ slides_txt_path' = SomeStr(r.path)
              /\ o_iter' = [o_iter EXCEPT !.wrote_slides = SomeStr(r.path)]
    /\ UNCHANGED <<transcript_meta_rec, deck_meta, txt_path, o_raised>>
    /\ NextEvent("processed", processed + 1, skipped)
    /\ UNCHANGED <<index_items, by_event, transcript_meta, transcript_raw>>
    /\ fetchUnchanged /\ othersUnchanged

\* `if path and path.exists(): try: path.unlink() except Exception: pass`: the
\* directory afterwards, when the unlink works (gone) and when it raises
\* a bug: the file is looked for but never removed
CleanupKeeps(dir, path, gone) == dir
Cleanup(dir, path, gone) ==
    IF path.some /\ Exists(dir, path.s) /\ gone THEN Unlink(dir, path.s) ELSE dir

\* the except block: both files are cleaned up, skipped += 1, and the iteration ends
ExceptStep ==
    /\ pc = "except"
    /\ \E gone_txt \in IF txt_path.some /\ Exists(transcript_raw, txt_path.s)
                       THEN BOOLEAN ELSE {TRUE} :
       \E gone_slides \in IF slides_txt_path.some /\ Exists(slides_text, slides_txt_path.s)
                          THEN BOOLEAN ELSE {TRUE} :
          /\ transcript_raw' = Cleanup(transcript_raw, txt_path, gone_txt)
          /\ slides_text' = Cleanup(slides_text, slides_txt_path, gone_slides)
          /\ o_iter' = [o_iter EXCEPT !.unlink_failed = ~gone_txt \/ ~gone_slides]
    /\ UNCHANGED <<transcript_meta_rec, deck_meta, txt_path, slides_txt_path, o_raised>>
    /\ NextEvent("failed", processed, skipped + 1)
    /\ UNCHANGED <<index_items, by_event, transcript_meta>>
    /\ fetchUnchanged /\ othersUnchanged

\* the loop over by_event is over: "Done <ticker>: processed=..., skipped=..."
Done ==
    /\ pc = "events" /\ event_at > Len(by_event)
    /\ pc' = "done"
    /\ UNCHANGED <<index_items, by_event, event_at, processed, skipped, o_raised, o_iter, o_log,
                   transcript_meta, fsVars>>
    /\ localsUnchanged /\ fetchUnchanged /\ othersUnchanged

Next ==
    \/ BuildMetaRaises \/ BuildMeta
    \/ ListDecksRaises \/ NoDecks \/ ChooseBoth
    \/ TranscriptStep \/ SlidesStepRaises \/ SlidesStep \/ ExceptStep
    \/ Done

Spec == MainInit /\ [][Next]_vars

(***************************************************************************)
(* The claims                                                              *)
(***************************************************************************)
\* a response that ends the loop: no data, or no next cursor
C3_Stops(resp) == ~resp.is_list \/ resp.data = <<>> \/ resp.next.kind = "none"
\* the number a next cursor stands for
C3_Number(next) ==
    IF next.kind = "int" THEN next.n ELSE CHOOSE n \in 0..Len(f_dataset) : IntStr(n) = next.s
RECURSIVE C3_Concat(_)
C3_Concat(resps) ==
    IF resps = <<>> THEN <<>>
    ELSE C3_Concat(SubSeq(resps, 1, Len(resps) - 1))
             \o (IF resps[Len(resps)].is_list THEN resps[Len(resps)].data ELSE <<>>)
C3_Sizes == [j \in 1..Len(f_resps) |-> Len(f_resps[j].data)]
\* C3: the first request of list_transcript_documents_by_ticker uses cursor 0 and
\* each later one the nextCursor of the response before it; no response but the last
\* one stops the loop, and the loop has ended exactly when the last response has no
\* data or no nextCursor; the result is the concatenation, in request order, of the
\* data of the pages received.  Pages of 200, 200, 150 and 0 records give 550
\* records, and so do pages of 200, 200 and 150 whose last one has no nextCursor.
C3_Pagination ==
    (f_pc \in {"paging", "done"}) =>
        /\ Len(f_reqs) = Len(f_resps)
        /\ \A j \in 1..Len(f_reqs) :
              f_reqs[j] = IF j = 1 THEN 0 ELSE C3_Number(f_resps[j - 1].next)
        /\ \A j \in 1..(Len(f_resps) - 1) : ~C3_Stops(f_resps[j])
        /\ f_pc = "done" <=> (f_resps # <<>> /\ C3_Stops(f_resps[Len(f_resps)]))
        /\ all_items = C3_Concat(f_resps)
        /\ f_pc = "done" => transcript_meta[IndexPath] = JsonArray(C3_Concat(f_resps))
        /\ (f_pc = "done" /\ f_server = "full") =>
               C3_Sizes = <<200, 200, 150, 0>> /\ Len(all_items) = 550
        /\ (f_pc = "done" /\ f_server = "fullEnd") =>
               C3_Sizes = <<200, 200, 150>> /\ Len(all_items) = 550

\* the 550 records have been fetched in pages of 200, 200 and 150, the last page
\* without a next cursor
C3_Witness ==
    /\ f_pc = "done" /\ f_server = "fullEnd"
    /\ Len(f_resps) = 3
    /\ f_resps[2].next = IntCursor(400)
    /\ f_resps[3].next = NoCursor /\ Len(f_resps[3].data) = 150
    /\ Len(all_items) = 550

\* C7: a response with a non-2xx status ends build_meta_for_ticker with the request
\* error: nothing is returned, and no file of transcript_meta is written or changed,
\* whatever the pages fetched before it held.
C7_ErrorAbortsFetch ==
    (f_resps # <<>> /\ ~f_resps[Len(f_resps)].ok) =>
        /\ f_pc = "failed"
        /\ f_wrote = {}
        /\ transcript_meta = f_before

\* the second page fails, over an index of an earlier run that holds other records
C7_Witness ==
    /\ f_pc = "failed"
    /\ Len(f_resps) = 2
    /\ all_items # <<>>
    /\ IndexPath \in DOMAIN transcript_meta
    /\ transcript_meta[IndexPath] # JsonArray(all_items)
    /\ transcript_meta[IndexPath].items # <<>>

\* C8: after write_meta_files, _index.json holds the full ordered record list, the
\* records without an int id included, and every per-record file written holds a
\* record of that list.
C8_IndexSuperset ==
    f_pc = "done" =>
        /\ IndexPath \in f_wrote
        /\ f_wrote \subseteq DOMAIN transcript_meta
        /\ transcript_meta[IndexPath] = JsonArray(all_items)
        /\ \A p \in f_wrote \ {IndexPath} :
              /\ ~transcript_meta[p].array
              /\ \E i \in 1..Len(all_items) : transcript_meta[p].items = <<all_items[i]>>

\* a fetch has ended with a record without an int id in the list, beside a record
\* that got a file of its own
C8_Witness ==
    /\ f_pc = "done"
    /\ \E i \in 1..Len(all_items) : ~all_items[i].id.int
    /\ \E i \in 1..Len(all_items) : all_items[i].id.int
    /\ f_wrote \ {IndexPath} # {}

C4_Lines == [i \in 1..Len(s_call.pdf.pages) |-> normalize_one_line(s_call.pdf.pages[i])]
C4_Pages == Len(s_call.pdf.pages)
C4_NonEmptyPages == Cardinality({i \in 1..C4_Pages : C4_Lines[i] # <<>>})
RECURSIVE C4_CharsUpTo(_)
C4_CharsUpTo(i) == IF i = 0 THEN 0 ELSE C4_CharsUpTo(i - 1) + Len(C4_Lines[i])
\* pages > 0, coverage >= 0.20 and totalChars >= 200
C4_Accepts ==
    /\ C4_Pages > 0
    /\ 5 * C4_NonEmptyPages >= C4_Pages
    /\ C4_CharsUpTo(C4_Pages) >= 200
\* the lines of a text file, each ended by a line feed
C4_FileLines(content) ==
    LET ends == SelectSeq([i \in 1..Len(content) |-> i], LAMBDA i : content[i] = "\n")
    IN  [k \in 1..Len(ends) |->
            SubSeq(content, (IF k = 1 THEN 0 ELSE ends[k - 1]) + 1, ends[k] - 1)]
\* C4: once the PDF is downloaded, slide_deck_obj_to_txt writes the slide-text file
\* if and only if pages > 0, coverage >= 0.20 and totalChars >= 200; a rejected call
\* raises and leaves the directory as it was; an accepted call leaves a file of one
\* line per page, in page order, blank for a page without text.  10 pages with 3
\* non-empty pages of 250 characters give 10 lines, 7 of them blank; 10 pages with 1
\* non-empty page of 50 characters are rejected.
C4_QualityGate ==
    (s_pc = "done" /\ s_call.pdf.ok) =>
        /\ ~s_call.raised <=> C4_Accepts
        /\ s_call.raised => slides_text = s_call.before
        /\ ~s_call.raised =>
            /\ Exists(slides_text, s_call.path)
            /\ slides_text[s_call.path] # <<>>
            /\ slides_text[s_call.path][Len(slides_text[s_call.path])] = "\n"
            /\ C4_FileLines(slides_text[s_call.path]) = C4_Lines
            /\ \A p \in DOMAIN slides_text \cup DOMAIN s_call.before :
                  p # s_call.path =>
                      /\ p \in DOMAIN slides_text /\ p \in DOMAIN s_call.before
                      /\ slides_text[p] = s_call.before[p]
        /\ s_call.pdf.pages = PdfTen250 =>
            /\ ~s_call.raised
            /\ Len(C4_FileLines(slides_text[s_call.path])) = 10
            /\ Cardinality({k \in 1..10 : C4_FileLines(slides_text[s_call.path])[k] = <<>>}) = 7
        /\ s_call.pdf.pages = PdfTen50 => s_call.raised

\* the accepted 10-page PDF, written over a file of an earlier run
C4_Witness ==
    /\ s_pc = "done"
    /\ s_call.pdf.ok
    /\ s_call.pdf.pages = PdfTen250
    /\ ~s_call.raised
    /\ s_call.before # EmptyDir
    /\ Exists(slides_text, s_call.path)

\* the stages of the fallback chain, each <<>> or <<the text it yields>>
C5_Texts(d, keys) ==
    LET found == SelectSeq(keys, LAMBDA k : Get(d, k).t = "str" /\ Strip(Get(d, k).s) # <<>>)
    IN  [i \in 1..Len(found) |-> Strip(Get(d, found[i]).s)]
C5_First(texts) == IF texts = <<>> THEN <<>> ELSE <<texts[1]>>
C5_ElementText(e) ==
    IF e.t = "dict" THEN C5_First(C5_Texts(e, <<"text", "content", "value">>))
    ELSE IF e.t = "str" /\ Strip(e.s) # <<>> THEN <<Strip(e.s)>>
    ELSE <<>>
RECURSIVE C5_Flatten(_)
C5_Flatten(ss) == IF ss = <<>> THEN <<>> ELSE Head(ss) \o C5_Flatten(Tail(ss))
C5_Joined(d, key) ==
    IF Get(d, key).t # "list" THEN <<>>
    ELSE Join(C5_Flatten([i \in 1..Len(Get(d, key).items) |->
                              C5_ElementText(Get(d, key).items[i])]), <<"\n">>)
C5_Arrays(d) ==
    LET keys == SelectSeq(<<"segments", "entries", "paragraphs", "turns", "speakerTurns", "items">>,
                          LAMBDA k : C5_Joined(d, k) # <<>>)
    IN  IF keys = <<>> THEN <<>> ELSE <<C5_Joined(d, keys[1])>>
RECURSIVE C5_Walk(_)
\* depth first: the text of a dict, then its values in order; the elements of a list
C5_Walk(x) ==
    IF x.t = "dict"
    THEN C5_Texts(x, <<"text">>) \o C5_Flatten([i \in 1..Len(x.items) |-> C5_Walk(x.items[i])])
    ELSE IF x.t = "list" THEN C5_Flatten([i \in 1..Len(x.items) |-> C5_Walk(x.items[i])])
    ELSE <<>>
C5_Collapsed(out) ==
    LET kept == SelectSeq([i \in 1..Len(out) |-> i], LAMBDA i : i = 1 \/ out[i] # out[i - 1])
    IN  [j \in 1..Len(kept) |-> out[kept[j]]]
C5_HasTranscript(raw) == raw.t = "dict" /\ Get(raw, "transcript").t = "dict"
C5_Stage1(raw) ==
    IF C5_HasTranscript(raw)
    THEN C5_First(C5_Texts(Get(raw, "transcript"), <<"text", "plainText", "content", "body">>))
    ELSE <<>>
C5_Stage2(raw) == IF C5_HasTranscript(raw) THEN C5_Arrays(Get(raw, "transcript")) ELSE <<>>
C5_Stage3(raw) == IF raw.t = "dict" THEN C5_Texts(raw, <<"text">>) ELSE <<>>
C5_Stage4(raw) == IF raw.t = "dict" THEN C5_Arrays(raw) ELSE <<>>
C5_Stage5(raw) ==
    IF C5_Walk(raw) = <<>> THEN <<>> ELSE <<Join(C5_Collapsed(C5_Walk(raw)), <<"\n">>)>>
C5_Chain(raw) ==
    C5_Stage1(raw) \o C5_Stage2(raw) \o C5_Stage3(raw) \o C5_Stage4(raw) \o C5_Stage5(raw)
\* C5: extract_text_from_raw_transcript returns the text of the first stage of the
\* fallback chain that yields one (transcript scalar fields, transcript array fields,
\* root text, root array fields, the walk over every "text" key with adjacent repeats
\* collapsed) and fails when no stage yields text.  The segments payload yields
\* "A\nB" and the nested payload yields "X\nY".
C5_FallbackChain ==
    t_pc = "done" =>
        /\ t_out.ok <=> C5_Chain(t_raw) # <<>>
        /\ t_out.ok => t_out.text = C5_Chain(t_raw)[1]
        /\ t_raw = PayloadSegments => t_out = Extracted(<<"A", "\n", "B">>)
        /\ t_raw = PayloadNested => t_out = Extracted(<<"X", "\n", "Y">>)

\* the walk decides, with a repeat next to itself and one further away
C5_Witness ==
    /\ t_pc = "done"
    /\ C5_Stage1(t_raw) \o C5_Stage2(t_raw) \o C5_Stage3(t_raw) \o C5_Stage4(t_raw) = <<>>
    /\ t_out = Extracted(<<"X", "\n", "Y", "\n", "X">>)

\* C9: two runs of meta_obj_to_txt for the same record against the same remote
\* payload return the same path, and the second run leaves the directory with the
\* files and the contents the first run left.
C9_Idempotent ==
    \A i \in 1..(Len(x_runs) - 1) :
        x_runs[i + 1].remote = x_runs[i].remote =>
            /\ x_runs[i + 1].raised = x_runs[i].raised
            /\ x_runs[i + 1].path = x_runs[i].path
            /\ x_runs[i + 1].dir = x_runs[i].dir

\* two runs that wrote the file, beside a file of another record
C9_Witness ==
    /\ Len(x_runs) = 2
    /\ x_runs[1].remote = x_runs[2].remote
    /\ ~x_runs[1].raised /\ ~x_runs[2].raised
    /\ Cardinality(DOMAIN transcript_raw) = 2
    /\ Exists(transcript_raw, x_runs[2].path)

\* a missing or an empty updatedAt counts as the lowest value
C6_Key(x) == IF x.updatedAt.some THEN x.updatedAt.s ELSE <<>>
C6_Greatest(i) == \A j \in 1..Len(c_items) : ~StrLess(C6_Key(c_items[i]), C6_Key(c_items[j]))
\* C6: over a non-empty list choose_best returns a record whose updatedAt is the
\* greatest of the list, a missing or empty updatedAt counting as the lowest value,
\* and of the records that tie for the greatest it returns the first in input order.
C6_ChooseBestFirstGreatest ==
    (c_pc = "chosen" /\ c_items # <<>>) =>
        \E i \in 1..Len(c_items) :
            /\ c_best = c_items[i]
            /\ C6_Greatest(i)
            /\ \A j \in 1..(i - 1) : ~C6_Greatest(j)

\* two records tie for the greatest value behind a record with an empty one
C6_Witness ==
    /\ c_pc = "chosen"
    /\ Len(c_items) = 3
    /\ c_items[1].updatedAt = SomeStr(<<>>)
    /\ c_items[2].updatedAt = SomeStr(<<51>>)
    /\ c_items[3].updatedAt = SomeStr(<<51>>)
    /\ c_best.id = SomeInt(2)

\* the iteration that has just ended, valid when one has
LastIteration == o_log[Len(o_log)]
IterationEnded == pc \in {"events", "done"} /\ o_log # <<>>

\* C1: one event's failure never aborts the run: when the deck lookup, the transcript
\* extraction or the slide extraction of an event raises, main() still goes on to
\* the remaining events and to its "Done" report, so it never ends on that exception
C1_EventFailureNeverAborts ==
    pc = "aborted" => o_raised \notin {"decks", "transcript", "slides"}

\* C2: when the transcript extraction or the slide extraction of an event raised,
\* then at the end of the iteration every text file the iteration wrote is gone
\* (unless an unlink failed), skipped is one more than at its start and processed
\* is what it was
C2_FailureCleansUp ==
    (IterationEnded /\ LastIteration.outcome = "failed") =>
        LET it == LastIteration.iter
        IN  /\ LastIteration.raised \in {"transcript", "slides"}
            /\ ~it.unlink_failed =>
                  /\ it.wrote_txt.some => ~Exists(transcript_raw, it.wrote_txt.s)
                  /\ it.wrote_slides.some => ~Exists(slides_text, it.wrote_slides.s)
            /\ skipped = it.s0 + 1
            /\ processed = it.p0
\* an iteration whose slide extraction raised after the transcript was written, and
\* whose unlink worked, has just ended
C2_Witness ==
    /\ IterationEnded /\ LastIteration.outcome = "failed"
    /\ LastIteration.raised = "slides"
    /\ LastIteration.iter.wrote_txt.some
    /\ ~LastIteration.iter.unlink_failed

\* the event of a log entry was counted as processed
C10_Counted(e) == e.p1 = e.iter.p0 + 1
\* no unlink of the run has failed
C10_DeletionSucceeds == \A k \in 1..Len(o_log) : ~o_log[k].iter.unlink_failed
\* both files of the event exist, or neither, and both exactly when it was counted
C10_Paired(e) ==
    /\ Exists(transcript_raw, e.txt) <=> Exists(slides_text, e.slides)
    /\ (Exists(transcript_raw, e.txt) /\ Exists(slides_text, e.slides)) <=> C10_Counted(e)
\* slide extraction is attempted only with the transcript written, and an iteration
\* whose transcript extraction raised wrote no slide text
C10_TranscriptFirst ==
    /\ pc = "slides" => txt_path.some /\ Exists(transcript_raw, txt_path.s)
    /\ \A k \in 1..Len(o_log) :
          o_log[k].raised = "transcript" => ~o_log[k].iter.wrote_slides.some
\* no earlier event of the run chose a transcript or a deck with a file name of e
C10_OwnFiles(k) ==
    \A j \in 1..(k - 1) :
        o_log[j].outcome # "no_deck" =>
            o_log[j].txt # o_log[k].txt /\ o_log[j].slides # o_log[k].slides

\* C10 as stated: in a run that starts with empty transcript_raw and slides_text
\* and in which no unlink fails, when the iteration of an event for which decks
\* were found ends, the chosen transcript's text file exists iff the chosen deck's
\* slide-text file exists, and both exist exactly when the event was counted as
\* processed; the transcript is written before the slide extraction is attempted
C10_BothOrNeither ==
    /\ C10_TranscriptFirst
    /\ (IterationEnded /\ C10_DeletionSucceeds /\ LastIteration.outcome # "no_deck") =>
          C10_Paired(LastIteration)

\* C10, amended: the same, for an event whose chosen transcript and chosen deck
\* have file names that no earlier event of the run chose (as they do when every
\* record has its own integer id and every deck carries its event's id)
C10_BothOrNeitherOwnFiles ==
    /\ C10_TranscriptFirst
    /\ (IterationEnded /\ C10_DeletionSucceeds /\ LastIteration.outcome # "no_deck"
            /\ C10_OwnFiles(Len(o_log))) =>
          C10_Paired(LastIteration)
\* a second event with files of its own has just failed after its transcript was
\* written, while the first event of the run was processed
C10_Witness ==
    /\ IterationEnded /\ C10_DeletionSucceeds /\ Len(o_log) = 2
    /\ C10_OwnFiles(2)
    /\ o_log[1].outcome = "processed"
    /\ o_log[2].outcome = "failed" /\ o_log[2].iter.wrote_txt.some

====
